---- MODULE Spec2Model ----
(***************************************************************************)
(* Model of pass6__migrateInputDeclarations                                *)
(* (signal-migration/src/passes/6_migrate_input_declarations.ts).          *)
(*                                                                         *)
(* The pass folds over result.sourceInputs (phase 1) and then over the     *)
(* set of files that received a migrated input (phase 2).  One action      *)
(* models one iteration of a loop; the collaborators that are not part of  *)
(* the pass (TODO annotator, text synthesizer, import manager) are         *)
(* modelled by their contracts.                                            *)
(***************************************************************************)
EXTENDS Integers, Sequences, FiniteSets, TLC

\* ------------------------------------------------------------------ bounds
\* Largest number of declarations in result.sourceInputs.
MaxDecls == 2
\* Largest number of edits one call of the TODO annotator returns.
MaxTodos == 2
\* Width, in characters, of a declaration node; nodes are laid out one
\* character apart so that a file holds several disjoint declarations.
DeclWidth == 2

\* ------------------------------------------------------------ data model
Files == {"X", "Y"}

Slots == 1..MaxDecls

\* The second component of an entry of result.sourceInputs.
MetadataValues == {"null", "present"}

\* One entry of result.sourceInputs together with what knownInputs says of
\* it: the node's source file and position, the classification, the
\* metadata and whether the node is a get/set accessor.  Every combination
\* is admitted for a compatible entry (the assertions of the pass decide);
\* an incompatible accessor has no metadata, an incompatible property may
\* have some.
Declarations ==
  {d \in [slot : Slots, file : Files, incompatible : BOOLEAN,
          metadata : MetadataValues, accessor : BOOLEAN] :
     (d.incompatible /\ d.accessor) => d.metadata = "null"}

\* input.node.getSourceFile()
getSourceFile(d) == d.file

\* input.node.getStart(): declarations of distinct slots are disjoint.
getStart(d) == d.slot * (DeclWidth + 1)

\* input.node.getEnd()
getEnd(d) == getStart(d) + DeclWidth

\* knownInputs.get(input)!.isIncompatible()
isIncompatible(d) == d.incompatible

\* ts.isAccessor(input.node)
isAccessor(d) == d.accessor

\* A registry is a Map: its keys (the declarations, identified by their
\* node) are pairwise distinct, and it is iterated in insertion order.
\* The file of the first entry is named "X" (files are interchangeable).
DistinctNodes(r) ==
  /\ \A a, b \in DOMAIN r : a # b => r[a].slot # r[b].slot
  /\ r # <<>> => r[1].file = "X"

Registries ==
  UNION {{r \in [1..n -> Declarations] : DistinctNodes(r)} : n \in 0..MaxDecls}

\* ---------------------------------------------------------- collaborators
\* new Replacement(projectFile(sf, info), new TextUpdate({position, end, toInsert}))
Replacement(f, p, e, t) ==
  [file |-> f, position |-> p, end |-> e, toInsert |-> t]

\* convertToSignalInput(input.node, metadata, checker, importManager, result):
\* the text it returns is a function of the node and its metadata.
convertToSignalInput(d) == <<"input", d.slot, d.metadata>>

\* The anchors at which the TODO annotator inserts text for a declaration:
\* immediately before and immediately after the declaration's own range.
TodoAnchors(d) == {getStart(d), getEnd(d)}

\* The n-th edit returned by the annotator: an insertion (empty range).
TodoEdit(d, a, n) == Replacement(getSourceFile(d), a, a, <<"todo", d.slot, n>>)

\* insertTodoForIncompatibility(input.node, info, inputInfo): every ordered
\* sequence of at most MaxTodos insertions, in source order; the empty
\* sequence is a valid result.
insertTodoForIncompatibility(d) ==
  UNION {{[k \in 1..n |-> TodoEdit(d, as[k], k)] :
            as \in {s \in [1..n -> TodoAnchors(d)] :
                      \A k \in 1..n, m \in 1..n : k < m => s[k] <= s[m]}} :
         n \in 0..MaxTodos}

\* A command received by the import manager.
ImportCommand(op, f, sym) ==
  [op |-> op, file |-> f, symbol |-> sym, module |-> "@angular/core"]

\* ------------------------------------------------------------------ state
VARIABLES
  registry,                    \* result.sourceInputs, in iteration order
  insertTodosForSkippedFields, \* host.config.insertTodosForSkippedFields
  pc,                          \* "phase1", "phase2", "done" or "aborted"
  i,                           \* index of the next entry of the first loop
  j,                           \* index of the next file of the second loop
  replacements,                \* result.replacements
  filesWithMigratedInputs,     \* a Set, kept in insertion order
  filesWithIncompatibleInputs, \* a WeakSet
  importManager,               \* the commands issued to the import manager
  taken                        \* history: the path each visited entry took

vars ==
  <<registry, insertTodosForSkippedFields, pc, i, j, replacements,
    filesWithMigratedInputs, filesWithIncompatibleInputs, importManager, taken>>

Range(s) == {s[k] : k \in DOMAIN s}

\* Mutant of SetAdd: the Set is replaced instead of extended.
SetAddReplacing(s, x) == <<x>>

\* Mutant of SetAdd: an array push, which keeps duplicates.
SetAddDuplicating(s, x) == Append(s, x)

\* Set.prototype.add on a Set iterated in insertion order.
SetAdd(s, x) == IF x \in Range(s) THEN s ELSE Append(s, x)

Init ==
  /\ registry \in Registries
  /\ insertTodosForSkippedFields \in BOOLEAN
  /\ pc = "phase1"
  /\ i = 1
  /\ j = 1
  /\ replacements = <<>>
  /\ filesWithMigratedInputs = <<>>
  /\ filesWithIncompatibleInputs = {}
  /\ importManager = <<>>
  /\ taken = <<>>

\* Mutant of SourceInputsExhausted: the first loop stops one entry early.
SourceInputsExhaustedEarly == i > Len(registry) - 1

\* The for-of loop over result.sourceInputs has no entry left.
SourceInputsExhausted == i > Len(registry)

\* Mutant of TodosWanted: the configuration is not consulted.
TodosAlwaysWanted == TRUE

\* host.config.insertTodosForSkippedFields
TodosWanted == insertTodosForSkippedFields

\* Mutant of TakesSkipPath: the branch also tests the metadata.
TakesSkipPathIfNoMetadata(d) == isIncompatible(d) /\ d.metadata = "null"

\* The branch condition of the first loop's body.
TakesSkipPath(d) == isIncompatible(d)

\* Mutant of AssertionsHold: the accessor assertion is missing.
AssertionsHoldMetadataOnly(d) == d.metadata # "null"

\* The two assertions that guard the migrate path.
AssertionsHold(d) == d.metadata # "null" /\ ~isAccessor(d)

\* Mutant of FullReplacement: `end` is the node's start, an insertion.
FullReplacementAsInsertion(d) ==
  Replacement(getSourceFile(d), getStart(d), getStart(d), convertToSignalInput(d))

\* Mutant of FullReplacement: the range starts in the text before the node.
FullReplacementWithLeadingText(d) ==
  Replacement(getSourceFile(d), getStart(d) - DeclWidth, getEnd(d),
              convertToSignalInput(d))

\* The edit the migrate path pushes.
FullReplacement(d) ==
  Replacement(getSourceFile(d), getStart(d), getEnd(d), convertToSignalInput(d))

\* Mutant of ShouldRemoveImport: the incompatible set is not consulted.
ShouldRemoveImportAlways(file) == TRUE

\* The condition under which the second loop removes the import of a file.
ShouldRemoveImport(file) == file \notin filesWithIncompatibleInputs

\* History record of one visited entry: the path, and where its edits lie
\* in result.replacements.
Visit(path, n) == [path |-> path, first |-> Len(replacements) + 1, count |-> n]

\* ---------------------------------------------------------------- actions
\* Mutant of SkipPath: the skip path also removes the file's import.
SkipPathRemovingImport ==
  /\ pc = "phase1"
  /\ ~SourceInputsExhausted
  /\ LET d == registry[i] IN
       /\ TakesSkipPath(d)
       /\ \E todos \in (IF TodosWanted THEN insertTodoForIncompatibility(d) ELSE {<<>>}) :
            /\ replacements' = replacements \o todos
            /\ taken' = Append(taken, Visit("skip", Len(todos)))
       /\ filesWithIncompatibleInputs' = filesWithIncompatibleInputs \cup {getSourceFile(d)}
       /\ importManager' =
            Append(importManager, ImportCommand("removeImport", getSourceFile(d), "Input"))
  /\ i' = i + 1
  /\ UNCHANGED <<registry, insertTodosForSkippedFields, pc, j,
                 filesWithMigratedInputs>>

\* Mutant of SkipPath: the annotator's edits are pushed last to first.
SkipPathReversing ==
  /\ pc = "phase1"
  /\ ~SourceInputsExhausted
  /\ LET d == registry[i] IN
       /\ TakesSkipPath(d)
       /\ \E todos \in (IF TodosWanted THEN insertTodoForIncompatibility(d) ELSE {<<>>}) :
            /\ replacements' =
                 replacements \o [k \in 1..Len(todos) |-> todos[Len(todos) + 1 - k]]
            /\ taken' = Append(taken, Visit("skip", Len(todos)))
       /\ filesWithIncompatibleInputs' = filesWithIncompatibleInputs \cup {getSourceFile(d)}
  /\ i' = i + 1
  /\ UNCHANGED <<registry, insertTodosForSkippedFields, pc, j,
                 filesWithMigratedInputs, importManager>>

\* First loop, `if (inputInfo.isIncompatible()) { ... continue; }`.
SkipPath ==
  /\ pc = "phase1"
  /\ ~SourceInputsExhausted
  /\ LET d == registry[i] IN
       /\ TakesSkipPath(d)
       /\ \E todos \in (IF TodosWanted THEN insertTodoForIncompatibility(d) ELSE {<<>>}) :
            /\ replacements' = replacements \o todos
            /\ taken' = Append(taken, Visit("skip", Len(todos)))
       /\ filesWithIncompatibleInputs' = filesWithIncompatibleInputs \cup {getSourceFile(d)}
  /\ i' = i + 1
  /\ UNCHANGED <<registry, insertTodosForSkippedFields, pc, j,
                 filesWithMigratedInputs, importManager>>

\* Mutant of MigratePath: the edit is put in front (unshift) instead of pushed.
MigratePathUnshifting ==
  /\ pc = "phase1"
  /\ ~SourceInputsExhausted
  /\ LET d == registry[i] IN
       /\ ~TakesSkipPath(d)
       /\ AssertionsHold(d)
       /\ filesWithMigratedInputs' = SetAdd(filesWithMigratedInputs, getSourceFile(d))
       /\ replacements' = <<FullReplacement(d)>> \o replacements
       /\ taken' = Append(taken, Visit("migrate", 1))
       /\ \E registers \in BOOLEAN :
            importManager' =
              IF registers
                THEN Append(importManager, ImportCommand("registerImport", getSourceFile(d), "input"))
                ELSE importManager
  /\ i' = i + 1
  /\ UNCHANGED <<registry, insertTodosForSkippedFields, pc, j,
                 filesWithIncompatibleInputs>>

\* First loop, the body after the two assertions.  The synthesizer is handed
\* the import manager and may register the import of `input`.
MigratePath ==
  /\ pc = "phase1"
  /\ ~SourceInputsExhausted
  /\ LET d == registry[i] IN
       /\ ~TakesSkipPath(d)
       /\ AssertionsHold(d)
       /\ filesWithMigratedInputs' = SetAdd(filesWithMigratedInputs, getSourceFile(d))
       /\ replacements' = Append(replacements, FullReplacement(d))
       /\ taken' = Append(taken, Visit("migrate", 1))
       /\ \E registers \in BOOLEAN :
            importManager' =
              IF registers
                THEN Append(importManager, ImportCommand("registerImport", getSourceFile(d), "input"))
                ELSE importManager
  /\ i' = i + 1
  /\ UNCHANGED <<registry, insertTodosForSkippedFields, pc, j,
                 filesWithIncompatibleInputs>>

\* Mutant of AssertionFailure: the edits made so far are discarded.
AssertionFailureRollingBack ==
  /\ pc = "phase1"
  /\ ~SourceInputsExhausted
  /\ LET d == registry[i] IN
       /\ ~TakesSkipPath(d)
       /\ ~AssertionsHold(d)
  /\ pc' = "aborted"
  /\ replacements' = <<>>
  /\ UNCHANGED <<registry, insertTodosForSkippedFields, i, j,
                 filesWithMigratedInputs, filesWithIncompatibleInputs,
                 importManager, taken>>

\* First loop, an assertion throws: the pass is left by the exception.
AssertionFailure ==
  /\ pc = "phase1"
  /\ ~SourceInputsExhausted
  /\ LET d == registry[i] IN
       /\ ~TakesSkipPath(d)
       /\ ~AssertionsHold(d)
  /\ pc' = "aborted"
  /\ UNCHANGED <<registry, insertTodosForSkippedFields, i, j, replacements,
                 filesWithMigratedInputs, filesWithIncompatibleInputs,
                 importManager, taken>>

\* The first loop ends and the second loop starts iterating the Set.
BeginImportPass ==
  /\ pc = "phase1"
  /\ SourceInputsExhausted
  /\ pc' = "phase2"
  /\ j' = 1
  /\ UNCHANGED <<registry, insertTodosForSkippedFields, i, replacements,
                 filesWithMigratedInputs, filesWithIncompatibleInputs,
                 importManager, taken>>

\* Mutant of ImportConsistencyStep: the examined file is deleted from the Set.
ImportConsistencyStepDeleting ==
  /\ pc = "phase2"
  /\ j <= Len(filesWithMigratedInputs)
  /\ LET file == filesWithMigratedInputs[j] IN
       /\ importManager' =
            IF ShouldRemoveImport(file)
              THEN Append(importManager, ImportCommand("removeImport", file, "Input"))
              ELSE importManager
       /\ filesWithMigratedInputs' =
            SelectSeq(filesWithMigratedInputs, LAMBDA f : f # file)
  /\ j' = j
  /\ UNCHANGED <<registry, insertTodosForSkippedFields, pc, i, replacements,
                 filesWithIncompatibleInputs, taken>>

\* Mutant of ImportConsistencyStep: the iteration advances only after a removal.
ImportConsistencyStepStalling ==
  /\ pc = "phase2"
  /\ j <= Len(filesWithMigratedInputs)
  /\ LET file == filesWithMigratedInputs[j] IN
       IF ShouldRemoveImport(file)
         THEN /\ importManager' =
                   Append(importManager, ImportCommand("removeImport", file, "Input"))
              /\ j' = j + 1
         ELSE UNCHANGED <<importManager, j>>
  /\ UNCHANGED <<registry, insertTodosForSkippedFields, pc, i, replacements,
                 filesWithMigratedInputs, filesWithIncompatibleInputs, taken>>

\* One iteration of `for (const file of filesWithMigratedInputs)`.
ImportConsistencyStep ==
  /\ pc = "phase2"
  /\ j <= Len(filesWithMigratedInputs)
  /\ LET file == filesWithMigratedInputs[j] IN
       importManager' =
         IF ShouldRemoveImport(file)
           THEN Append(importManager, ImportCommand("removeImport", file, "Input"))
           ELSE importManager
  /\ j' = j + 1
  /\ UNCHANGED <<registry, insertTodosForSkippedFields, pc, i, replacements,
                 filesWithMigratedInputs, filesWithIncompatibleInputs, taken>>

\* The second loop has no file left: the pass returns.
Return ==
  /\ pc = "phase2"
  /\ j > Len(filesWithMigratedInputs)
  /\ pc' = "done"
  /\ UNCHANGED <<registry, insertTodosForSkippedFields, i, j, replacements,
                 filesWithMigratedInputs, filesWithIncompatibleInputs,
                 importManager, taken>>

Next ==
  \/ SkipPath
  \/ MigratePath
  \/ AssertionFailure
  \/ BeginImportPass
  \/ ImportConsistencyStep
  \/ Return

Spec == Init /\ [][Next]_vars

\* The pass is synchronous and single-threaded: as long as a loop has an
\* iteration left, or the pass has not returned, it takes its next step.
FairSpec == Spec /\ WF_vars(Next)

\* ------------------------------------------------------- shared vocabulary
TypeOK ==
  /\ registry \in Registries
  /\ pc \in {"phase1", "phase2", "done", "aborted"}
  /\ i \in 1..(Len(registry) + 1)
  /\ Range(filesWithMigratedInputs) \subseteq Files
  /\ filesWithIncompatibleInputs \subseteq Files

\* removeImport(F, 'Input', '@angular/core') has been issued.
RemoveIssued(F) ==
  \E k \in DOMAIN importManager :
    importManager[k] = ImportCommand("removeImport", F, "Input")

\* The entries of the registry visited so far.
Visited == DOMAIN taken

\* Two edits of one file touch a common character.
Overlap(a, b) ==
  a.file = b.file /\ a.position < b.end /\ b.position < a.end

\* The edit is one the TODO annotator produced.
IsTodoEdit(e) == e.toInsert[1] = "todo"

\* The slot of the declaration an edit was produced for.
EditSlot(e) == e.toInsert[2]

\* The edit spans exactly the declaration's own range.
SpansDeclaration(e, d) ==
  e.file = getSourceFile(d) /\ e.position = getStart(d) /\ e.end = getEnd(d)

\* F owns a visited declaration that took the given path.
OwnsTaken(F, path) ==
  \E k \in Visited : getSourceFile(registry[k]) = F /\ taken[k].path = path

\* The first loop is about to process an entry of the given classification.
AtDeclaration(incompatible) ==
  /\ pc = "phase1"
  /\ i <= Len(registry)
  /\ isIncompatible(registry[i]) = incompatible

\* A compatible entry breaks the classifier's contract.
ViolatesContract(d) ==
  ~isIncompatible(d) /\ (d.metadata = "null" \/ isAccessor(d))

\* ---------------------------------------------------------------- claims

\* C1: when the pass has completed, removeImport(F, 'Input', '@angular/core')
\* has been issued for a file F if and only if F owns a declaration that
\* took the migrate path and none that took the skip path; and at no time
\* is it issued for a file that owns an incompatible declaration.
C1_ImportRemovedIff ==
  /\ pc = "done" =>
       \A F \in Files :
         RemoveIssued(F) <=> (OwnsTaken(F, "migrate") /\ ~OwnsTaken(F, "skip"))
  /\ \A F \in Files :
       RemoveIssued(F) =>
         ~\E k \in DOMAIN registry :
            getSourceFile(registry[k]) = F /\ isIncompatible(registry[k])

\* C1 witness: a completed run in which a file owns a migrated and a
\* skipped declaration and did not get the removal command.
C1_Witness ==
  /\ pc = "done"
  /\ \E F \in Files :
       OwnsTaken(F, "migrate") /\ OwnsTaken(F, "skip") /\ ~RemoveIssued(F)

\* C2: no removeImport command is issued, and the second loop does not run,
\* before every entry of result.sourceInputs has been visited.
C2_TwoPhaseOrdering ==
  (pc \in {"phase2", "done"} \/ \E F \in Files : RemoveIssued(F)) =>
    Len(taken) = Len(registry)

\* C2 witness: a removal was issued in a run over declarations of two files.
C2_Witness ==
  /\ \E F \in Files : RemoveIssued(F)
  /\ \E a, b \in DOMAIN registry :
       getSourceFile(registry[a]) # getSourceFile(registry[b])

\* C3: no incompatible declaration ever has an edit that spans its own
\* range in result.replacements, whatever its metadata and the configuration.
C3_NoFullReplacementForIncompatible ==
  \A k \in DOMAIN registry :
    isIncompatible(registry[k]) =>
      \A n \in DOMAIN replacements :
        /\ ~SpansDeclaration(replacements[n], registry[k])
        /\ EditSlot(replacements[n]) = registry[k].slot => IsTodoEdit(replacements[n])

\* C3 witness: an incompatible, non-accessor declaration with metadata
\* present was visited and annotated.
C3_Witness ==
  \E k \in Visited :
    /\ isIncompatible(registry[k])
    /\ registry[k].metadata = "present"
    /\ ~isAccessor(registry[k])
    /\ taken[k].count > 0

\* C4: processing a compatible declaration with metadata and a non-accessor
\* node appends exactly one edit, in the owning file, with the range
\* [getStart(), getEnd()) and the synthesizer's text, and records the
\* owning file in filesWithMigratedInputs.
C4_MigratePathEdit ==
  [][(AtDeclaration(FALSE) /\ ~ViolatesContract(registry[i])) =>
       LET d == registry[i] IN
         /\ replacements' =
              Append(replacements,
                     [file |-> getSourceFile(d), position |-> getStart(d),
                      end |-> getEnd(d), toInsert |-> convertToSignalInput(d)])
         /\ getSourceFile(d) \in Range(filesWithMigratedInputs')]_vars

\* C4 witness: a declaration was migrated after other edits were appended.
C4_Witness ==
  \E k \in Visited :
    /\ taken[k].path = "migrate"
    /\ taken[k].first > 1
    /\ Len(replacements) = taken[k].first

\* C5: in a completed run every declaration was handled by exactly one
\* path: a compatible one has exactly one edit, the full replacement, an
\* incompatible one has TODO edits only; and the two tracking sets hold
\* exactly the files owning a compatible, resp. an incompatible, declaration.
C5_Exhaustive ==
  pc = "done" =>
    /\ \A k \in DOMAIN registry :
         LET d == registry[k]
             mine == SelectSeq(replacements, LAMBDA e : EditSlot(e) = d.slot)
         IN /\ k \in Visited
            /\ isIncompatible(d) =>
                 /\ taken[k].path = "skip"
                 /\ \A n \in DOMAIN mine : IsTodoEdit(mine[n])
            /\ ~isIncompatible(d) =>
                 /\ taken[k].path = "migrate"
                 /\ Len(mine) = 1
                 /\ ~IsTodoEdit(mine[1])
    /\ filesWithIncompatibleInputs =
         {getSourceFile(registry[k]) :
            k \in {n \in DOMAIN registry : isIncompatible(registry[n])}}
    /\ Range(filesWithMigratedInputs) =
         {getSourceFile(registry[k]) :
            k \in {n \in DOMAIN registry : ~isIncompatible(registry[n])}}

\* C5 witness: a completed run over two compatible declarations of two files.
C5_Witness ==
  /\ pc = "done"
  /\ \E a, b \in DOMAIN registry :
       /\ ~isIncompatible(registry[a])
       /\ ~isIncompatible(registry[b])
       /\ getSourceFile(registry[a]) # getSourceFile(registry[b])

\* C6: with insertTodosForSkippedFields false the annotator is never
\* invoked and result.replacements holds no TODO edit; a completed run over
\* incompatible declarations only leaves result.replacements empty while
\* the owning files are all in filesWithIncompatibleInputs.
C6_ConfigurationGating ==
  ~insertTodosForSkippedFields =>
    /\ \A n \in DOMAIN replacements : ~IsTodoEdit(replacements[n])
    /\ \A k \in Visited : taken[k].path = "skip" => taken[k].count = 0
    /\ (pc = "done" /\ \A k \in DOMAIN registry : isIncompatible(registry[k])) =>
         /\ replacements = <<>>
         /\ filesWithIncompatibleInputs =
              {getSourceFile(registry[k]) : k \in DOMAIN registry}

\* C6 witness: a completed run, flag false, over incompatible declarations
\* of two files.
C6_Witness ==
  /\ ~insertTodosForSkippedFields
  /\ pc = "done"
  /\ \A k \in DOMAIN registry : isIncompatible(registry[k])
  /\ filesWithIncompatibleInputs = Files

\* C7: a compatible declaration with null metadata or an accessor node
\* aborts the pass at once: the step appends no edit, adds no file to
\* either set, issues no import command and visits nothing; after the
\* abort the pass takes no further step, and no removeImport was issued.
C7_ContractViolationFatal ==
  [][/\ pc # "aborted"
     /\ (AtDeclaration(FALSE) /\ ViolatesContract(registry[i])) =>
          /\ pc' = "aborted"
          /\ UNCHANGED <<i, replacements, filesWithMigratedInputs,
                         filesWithIncompatibleInputs, importManager, taken>>
          /\ \A F \in Files : ~RemoveIssued(F)
          /\ \A n \in DOMAIN replacements :
               EditSlot(replacements[n]) # registry[i].slot]_vars

\* C7 witness: the pass aborted on an accessor with metadata present, after
\* a migrated declaration of the same file.
C7_Witness ==
  /\ pc = "aborted"
  /\ i > 1
  /\ isAccessor(registry[i])
  /\ registry[i].metadata = "present"
  /\ getSourceFile(registry[i]) \in Range(filesWithMigratedInputs)

\* C8: the edits accumulated for one file describe pairwise non-overlapping
\* ranges (declarations are disjoint, the annotator inserts at the
\* boundaries of the declaration it annotates).
C8_Disjoint ==
  \A a, b \in DOMAIN replacements :
    a # b => ~Overlap(replacements[a], replacements[b])

\* C8 witness: one file holds a full replacement and two TODO insertions,
\* one before and one after the skipped declaration.
C8_Witness ==
  \E a, b, c \in DOMAIN replacements :
    /\ replacements[a].file = replacements[b].file
    /\ replacements[b].file = replacements[c].file
    /\ ~IsTodoEdit(replacements[a])
    /\ IsTodoEdit(replacements[b])
    /\ IsTodoEdit(replacements[c])
    /\ replacements[b].position < replacements[c].position

\* C9: processing an incompatible declaration issues no import command and
\* leaves filesWithMigratedInputs alone; it adds the owning file to
\* filesWithIncompatibleInputs and appends TODO edits only.
C9_SkipPathFrame ==
  [][AtDeclaration(TRUE) =>
       /\ importManager' = importManager
       /\ filesWithMigratedInputs' = filesWithMigratedInputs
       /\ filesWithIncompatibleInputs' =
            filesWithIncompatibleInputs \cup {getSourceFile(registry[i])}
       /\ Len(replacements') >= Len(replacements)
       /\ SubSeq(replacements', 1, Len(replacements)) = replacements
       /\ \A n \in (Len(replacements) + 1)..Len(replacements') :
            IsTodoEdit(replacements'[n])
       /\ UNCHANGED <<registry, insertTodosForSkippedFields, pc, j>>]_vars

\* C9 witness: an incompatible declaration was skipped, with TODO edits,
\* after the import manager had received a command.
C9_Witness ==
  \E k \in Visited :
    /\ taken[k].path = "skip"
    /\ taken[k].count > 0
    /\ k = Len(taken)
    /\ importManager # <<>>

\* C10: from the start of the second loop to the return of the pass,
\* result.replacements and the two tracking sets are not modified; only
\* the import manager's state changes.
C10_ImportPassFrame ==
  [][pc = "phase2" =>
       UNCHANGED <<replacements, filesWithMigratedInputs,
                   filesWithIncompatibleInputs, registry,
                   insertTodosForSkippedFields, i, taken>>]_vars

\* C10 witness: the second loop examined two files, removed the import of
\* one, and result.replacements is not empty.
C10_Witness ==
  /\ pc = "phase2"
  /\ j > 2
  /\ \E F \in Files : RemoveIssued(F)
  /\ replacements # <<>>

\* The index, in iteration order, of the registry entry with the given slot.
RegistryIndex(slot) == CHOOSE k \in DOMAIN registry : registry[k].slot = slot

\* The edits lie in the iteration order of the entries they were made for.
InRegistryOrder(edits) ==
  \A a, b \in DOMAIN edits :
    a < b => RegistryIndex(EditSlot(edits[a])) <= RegistryIndex(EditSlot(edits[b]))

\* C11: result.replacements is append-only: every step keeps the edits it
\* found as a prefix of the edits it leaves, and the edits lie in the
\* iteration order of the declarations that produced them.
C11_AppendOnly ==
  [][/\ Len(replacements') >= Len(replacements)
     /\ SubSeq(replacements', 1, Len(replacements)) = replacements
     /\ InRegistryOrder(replacements')]_vars

\* C11 witness: edits of two declarations of one file, the one that comes
\* later in the source having been iterated first.
C11_Witness ==
  /\ Len(registry) >= 2
  /\ Len(taken) >= 2
  /\ getSourceFile(registry[1]) = getSourceFile(registry[2])
  /\ getStart(registry[1]) > getStart(registry[2])
  /\ taken[1].count > 0
  /\ taken[2].count > 0

\* The sequence is a possible result of the annotator for d: at most
\* MaxTodos insertions at the declaration's anchors, numbered as returned
\* and in source order.
IsAnnotatorResult(d, edits) ==
  /\ Len(edits) <= MaxTodos
  /\ \A k \in DOMAIN edits :
       /\ edits[k].position \in TodoAnchors(d)
       /\ edits[k] = TodoEdit(d, edits[k].position, k)
       /\ k > 1 => edits[k - 1].position <= edits[k].position

\* The positions of result.replacements that hold an edit made for d.
PositionsOf(d) ==
  {n \in DOMAIN replacements : EditSlot(replacements[n]) = d.slot}

\* C12: the edits the annotator returned for a skipped declaration lie in
\* result.replacements contiguously, with no edit of another declaration
\* between them, and in the order the annotator returned them; an empty
\* result appends nothing and does not abort the pass.
C12_TodoEditsContiguous ==
  /\ \A k \in Visited :
       isIncompatible(registry[k]) =>
         LET d == registry[k]
             P == PositionsOf(d)
         IN /\ \A a, b \in P : \A c \in a..b : c \in P
            /\ IsAnnotatorResult(d, SelectSeq(replacements, LAMBDA e : EditSlot(e) = d.slot))
            /\ Cardinality(P) = taken[k].count
  /\ pc = "aborted" => ~isIncompatible(registry[i])

\* C12 witness: the annotator returned two edits for the first declaration
\* and none for the second, and the pass completed.
C12_Witness ==
  /\ insertTodosForSkippedFields
  /\ pc = "done"
  /\ Len(taken) = 2
  /\ taken[1].path = "skip"
  /\ taken[1].count = 2
  /\ taken[2].path = "skip"
  /\ taken[2].count = 0

\* The number of removeImport(F, 'Input', '@angular/core') commands issued.
RemoveCount(F) ==
  Cardinality({k \in DOMAIN importManager :
                 importManager[k] = ImportCommand("removeImport", F, "Input")})

\* C13: removeImport is issued at most once per file, however many
\* migrated declarations the file owns.
C13_RemoveAtMostOnce ==
  \A F \in Files : RemoveCount(F) <= 1

\* C13 witness: a completed run in which a file owning two migrated
\* declarations had its import removed.
C13_Witness ==
  /\ pc = "done"
  /\ \E F \in Files :
       /\ RemoveIssued(F)
       /\ \E a, b \in Visited :
            /\ a # b
            /\ getSourceFile(registry[a]) = F
            /\ getSourceFile(registry[b]) = F
            /\ taken[a].path = "migrate"
            /\ taken[b].path = "migrate"

\* The number of edits appended for the entries visited so far.
AppendedSoFar ==
  IF taken = <<>> THEN 0
  ELSE taken[Len(taken)].first + taken[Len(taken)].count - 1

\* C14: in the aborted state result.replacements still holds, unchanged and
\* in place, every edit appended for the declarations processed before the
\* violating one: the TODO edits of the skipped ones and the full
\* replacement of the migrated ones.
C14_NoRollback ==
  pc = "aborted" =>
    /\ Len(taken) = i - 1
    /\ Len(replacements) = AppendedSoFar
    /\ \A k \in 1..(i - 1) :
         LET d == registry[k]
             mine == SubSeq(replacements, taken[k].first,
                            taken[k].first + taken[k].count - 1)
         IN IF isIncompatible(d)
              THEN IF insertTodosForSkippedFields
                     THEN IsAnnotatorResult(d, mine)
                     ELSE mine = <<>>
              ELSE mine = <<[file |-> getSourceFile(d), position |-> getStart(d),
                             end |-> getEnd(d),
                             toInsert |-> convertToSignalInput(d)]>>

\* C14 witness: the pass aborted on its second declaration after the first
\* one was skipped with two TODO edits.
C14_Witness ==
  /\ pc = "aborted"
  /\ i = 2
  /\ taken[1].path = "skip"
  /\ Len(replacements) = 2

\* The pass returned after one visit of every registry entry and one
\* examination of every file of filesWithMigratedInputs.
CompletedOnce ==
  /\ pc = "done"
  /\ i = Len(registry) + 1
  /\ Len(taken) = Len(registry)
  /\ \A k \in DOMAIN registry :
       ~isIncompatible(registry[k]) => Cardinality(PositionsOf(registry[k])) = 1
  /\ j = Len(filesWithMigratedInputs) + 1
  /\ \A a, b \in DOMAIN filesWithMigratedInputs :
       a # b => filesWithMigratedInputs[a] # filesWithMigratedInputs[b]
  /\ \A F \in Files : RemoveCount(F) <= 1

\* C15: the pass eventually terminates, aborted on a contract violation or
\* completed; when it completed, every declaration was visited exactly once
\* and every file of filesWithMigratedInputs was examined exactly once.
C15_Terminates == <>(pc = "aborted" \/ CompletedOnce)

\* C15 witness: the pass completed after two iterations of each loop.
C15_Witness ==
  /\ pc = "done"
  /\ Len(taken) = 2
  /\ Len(filesWithMigratedInputs) = 2
  /\ j = 3

====
